---- MODULE Spec2Model ----
(***************************************************************************)
(* Model of the PDF text-extraction service, src/pdf-service/main.py.      *)
(*                                                                         *)
(* The service has one handler, extract_text.  A request walks through     *)
(* the handler's statements: the start log line, the upload read, the      *)
(* parser open, one extraction per page, the exit of the with block, and   *)
(* then either the text/placeholder decision or the except clause.         *)
(*                                                                         *)
(* A Python string is modelled as a sequence of pieces; the texts of       *)
(* pages are sequences of single characters, so that strip() and the       *)
(* two-newline separator act on characters.  The PDF library is a black    *)
(* box: the bytes of an upload are represented by their length and by      *)
(* what the library makes of them (an exception on open, or a sequence     *)
(* of pages each of which yields None, a string, or an exception).         *)
(***************************************************************************)
EXTENDS Integers, Sequences, FiniteSets, TLC

\* Largest number of pages of a modelled document.
MaxPages == 2
\* Number of request slots the server runs concurrently.
NReq == 2

\* Per request: pc, the statement it is at; upload, the file argument;
\* contents, the bytes read; handleOpen, whether pdf is open; text, the
\* accumulator; pageIdx, the page the loop is at; exc, the exception that
\* is propagating, if any; responses, the values returned; opens, the
\* number of calls of pdfplumber.open.  log is the logger's output, which
\* all requests share.
VARIABLES pc, upload, contents, handleOpen, text, pageIdx, exc, responses,
          opens, log

vars == <<pc, upload, contents, handleOpen, text, pageIdx, exc, responses,
          opens, log>>

Reqs == 1 .. NReq

----------------------------------------------------------------------------
(* Strings *)

NL == "\n"

IsSpace(c) == c \in {" ", "\n", "\t"}

RECURSIVE LStrip(_)
LStrip(s) ==
    IF s = <<>> THEN <<>>
    ELSE IF IsSpace(Head(s)) THEN LStrip(Tail(s)) ELSE s

RECURSIVE RStrip(_)
RStrip(s) ==
    IF s = <<>> THEN <<>>
    ELSE IF IsSpace(s[Len(s)]) THEN RStrip(SubSeq(s, 1, Len(s) - 1)) ELSE s

\* str.strip(): leading and trailing whitespace removed.
Strip(s) == RStrip(LStrip(s))

\* Python truthiness of the value a page extraction returned: None and the
\* empty string are falsy.
Truthy(p) == p.kind = "text" /\ p.val # <<>>

\* str(e) of an exception: "" without arguments, the argument with one.
StrOfException(e) == IF e.args = <<>> THEN <<>> ELSE e.args[1]

\* The character of one decimal digit.
DigitChar(d) == <<"0", "1", "2", "3", "4", "5", "6", "7", "8", "9">>[d + 1]

RECURSIVE Digits(_)
Digits(n) ==
    IF n < 10 THEN <<DigitChar(n)>>
    ELSE Digits(n \div 10) \o <<DigitChar(n % 10)>>

\* A size that is cut after two decimals instead of rounded.
FormatKBTruncated(n) ==
    LET h == (n * 100) \div 1024
    IN  Digits(h \div 100)
            \o <<".", DigitChar((h \div 10) % 10), DigitChar(h % 10)>>

\* f"{n/1024:.2f}": n/1024 is exact in binary floating point, and the
\* conversion to two decimals rounds it correctly, ties to even.
FormatKB(n) ==
    LET q == (n * 100) \div 1024
        r == (n * 100) % 1024
        h == IF r > 512 \/ (r = 512 /\ q % 2 = 1) THEN q + 1 ELSE q
    IN  Digits(h \div 100)
            \o <<".", DigitChar((h \div 10) % 10), DigitChar(h % 10)>>

OcrSentence ==
    "This PDF appears to be image-based. Text extraction requires OCR processing."

\* The f-string of the image-based reply.
Placeholder(filename, size) ==
    <<"PDF Document: ">> \o filename \o <<NL, NL, "File Size: ">>
        \o FormatKB(size) \o <<"KB", NL, NL, OcrSentence>>

\* A loop that writes the separator for every page, with text or without.
AppendPageAlways(acc, p) ==
    acc \o (IF p.kind = "text" THEN p.val ELSE <<>>) \o <<NL, NL>>

\* One turn of the page loop: a truthy page text is appended with the
\* two-newline separator, anything else leaves the accumulator alone.
AppendPage(acc, p) ==
    IF Truthy(p) THEN acc \o p.val \o <<NL, NL>> ELSE acc

\* A reply that returns the trimmed copy it tested.
SuccessResponseTrimmed(acc, filename, size) ==
    IF Strip(acc) # <<>>
    THEN [success |-> TRUE, text |-> Strip(acc)]
    ELSE [success |-> TRUE, text |-> Placeholder(filename, size)]

\* The reply of the try block once all pages are read.
SuccessResponse(acc, filename, size) ==
    IF Strip(acc) # <<>>
    THEN [success |-> TRUE, text |-> acc]
    ELSE [success |-> TRUE, text |-> Placeholder(filename, size)]

\* The reply of the except clause.
FailureResponse(e) == [success |-> FALSE, error |-> StrOfException(e)]

\* The log record of one logger call; req is the request that made the
\* call (not part of the line: it tells the lines of two requests apart).
LogLine(level, event, filename, r) ==
    [level |-> level, event |-> event, filename |-> filename, req |-> r]

----------------------------------------------------------------------------
(* The uploads a client can send, and what the PDF library makes of them *)

Exception(args) == [args |-> args]

ParseErrors ==
    { Exception(<<>>),
      Exception(<< <<"No /Root object! - Is this really a PDF?">> >>) }

PageError == Exception(<< <<"Unexpected EOF">> >>)

ReadError == Exception(<< <<"client disconnected">> >>)

PageTexts == { <<>>, <<" ">>, <<"a">>, <<" ", "b">> }

PageOutcomes ==
    { [kind |-> "none", val |-> <<>>], [kind |-> "raise", val |-> <<>>] }
        \cup { [kind |-> "text", val |-> t] : t \in PageTexts }

PageSeqs == UNION { [1 .. n -> PageOutcomes] : n \in 0 .. MaxPages }

Filenames == { <<"a.pdf">>, <<"scan 1.pdf">> }

\* Byte lengths of documents the library can open.
PdfSizes == { 128, 200, 384, 1024, 1029, 10235 }

\* Byte lengths of uploads the library rejects; no PDF has 0 or 1 bytes.
BadSizes == { 0, 1, 200 }

NoException == <<>>

Bytes(size, openExc, pages) ==
    [size |-> size, openExc |-> openExc, pages |-> pages]

Upload(filename, readExc, bytes) ==
    [filename |-> filename, readExc |-> readExc, bytes |-> bytes]

GoodUploads ==
    { Upload(f, NoException, Bytes(n, NoException, ps)) :
        f \in Filenames, n \in PdfSizes, ps \in PageSeqs }

BadUploads ==
    { Upload(f, NoException, Bytes(n, <<e>>, <<>>)) :
        f \in Filenames, n \in BadSizes, e \in ParseErrors }

BrokenUploads ==
    { Upload(f, <<ReadError>>, Bytes(128, NoException, <<>>)) :
        f \in Filenames }

Uploads == GoodUploads \cup BadUploads \cup BrokenUploads

TextPage(t) == [kind |-> "text", val |-> t]

\* The uploads of the concurrent runs: one of each kind of reply.
ConcUploads ==
    { Upload(<<"a.pdf">>, NoException,
             Bytes(128, NoException,
                   <<TextPage(<<" ", "b">>), TextPage(<<"a">>)>>)),
      Upload(<<"scan 1.pdf">>, NoException,
             Bytes(384, NoException,
                   <<TextPage(<<"a">>), [kind |-> "raise", val |-> <<>>]>>)),
      Upload(<<"a.pdf">>, NoException,
             Bytes(200, NoException, <<TextPage(<<" ">>)>>)),
      Upload(<<"scan 1.pdf">>, NoException,
             Bytes(1, <<Exception(<<>>)>>, <<>>)),
      Upload(<<"a.pdf">>, <<ReadError>>, Bytes(128, NoException, <<>>)) }

NoUpload == Upload(<<>>, NoException, Bytes(0, NoException, <<>>))

NoBytes == Bytes(0, NoException, <<>>)

----------------------------------------------------------------------------
(* The handler, statement by statement *)

Init ==
    /\ pc = [r \in Reqs |-> "idle"]
    /\ upload = [r \in Reqs |-> NoUpload]
    /\ contents = [r \in Reqs |-> NoBytes]
    /\ handleOpen = [r \in Reqs |-> FALSE]
    /\ text = [r \in Reqs |-> <<>>]
    /\ pageIdx = [r \in Reqs |-> 0]
    /\ exc = [r \in Reqs |-> NoException]
    /\ responses = [r \in Reqs |-> <<>>]
    /\ opens = [r \in Reqs |-> 0]
    /\ log = <<>>

\* The server calls extract_text(file); the handler logs the start line.
Start(r, u) ==
    /\ pc[r] = "idle"
    /\ upload' = [upload EXCEPT ![r] = u]
    /\ log' = Append(log, LogLine("info", "Processing PDF", u.filename, r))
    /\ pc' = [pc EXCEPT ![r] = "read"]
    /\ UNCHANGED <<contents, handleOpen, text, pageIdx, exc, responses, opens>>

\* contents = await file.read()
ReadUpload(r) ==
    /\ pc[r] = "read"
    /\ IF upload[r].readExc # NoException
       THEN /\ exc' = [exc EXCEPT ![r] = upload[r].readExc]
            /\ pc' = [pc EXCEPT ![r] = "except"]
            /\ UNCHANGED contents
       ELSE /\ contents' = [contents EXCEPT ![r] = upload[r].bytes]
            /\ pc' = [pc EXCEPT ![r] = "open"]
            /\ UNCHANGED exc
    /\ UNCHANGED <<upload, handleOpen, text, pageIdx, responses, opens, log>>

\* An open that starts from the accumulator another request left behind,
\* as a module-level accumulator that is never reset would.
OpenPdfStaleText(r) ==
    /\ pc[r] = "open"
    /\ opens' = [opens EXCEPT ![r] = @ + 1]
    /\ IF contents[r].openExc # NoException
       THEN /\ exc' = [exc EXCEPT ![r] = contents[r].openExc]
            /\ pc' = [pc EXCEPT ![r] = "except"]
            /\ UNCHANGED <<handleOpen, text, pageIdx>>
       ELSE /\ handleOpen' = [handleOpen EXCEPT ![r] = TRUE]
            /\ text' = [text EXCEPT ![r] = text[IF r = 1 THEN NReq ELSE r - 1]]
            /\ pageIdx' = [pageIdx EXCEPT ![r] = 1]
            /\ pc' = [pc EXCEPT ![r] = "pages"]
            /\ UNCHANGED exc
    /\ UNCHANGED <<upload, contents, responses, log>>

\* with pdfplumber.open(io.BytesIO(contents)) as pdf: text = ""
OpenPdf(r) ==
    /\ pc[r] = "open"
    /\ opens' = [opens EXCEPT ![r] = @ + 1]
    /\ IF contents[r].openExc # NoException
       THEN /\ exc' = [exc EXCEPT ![r] = contents[r].openExc]
            /\ pc' = [pc EXCEPT ![r] = "except"]
            /\ UNCHANGED <<handleOpen, text, pageIdx>>
       ELSE /\ handleOpen' = [handleOpen EXCEPT ![r] = TRUE]
            /\ text' = [text EXCEPT ![r] = <<>>]
            /\ pageIdx' = [pageIdx EXCEPT ![r] = 1]
            /\ pc' = [pc EXCEPT ![r] = "pages"]
            /\ UNCHANGED exc
    /\ UNCHANGED <<upload, contents, responses, log>>

\* A page loop that appends to one accumulator shared by all the requests
\* that are in their page loop.
ExtractPageSharedText(r) ==
    /\ pc[r] = "pages"
    /\ IF pageIdx[r] > Len(contents[r].pages)
       THEN /\ pc' = [pc EXCEPT ![r] = "exit"]
            /\ UNCHANGED <<text, pageIdx, exc>>
       ELSE LET page == contents[r].pages[pageIdx[r]]
            IN  IF page.kind = "raise"
                THEN /\ exc' = [exc EXCEPT ![r] = <<PageError>>]
                     /\ pc' = [pc EXCEPT ![r] = "exit"]
                     /\ UNCHANGED <<text, pageIdx>>
                ELSE /\ text' = [q \in Reqs |->
                                  IF q = r \/ pc[q] = "pages"
                                  THEN AppendPage(text[q], page)
                                  ELSE text[q]]
                     /\ pageIdx' = [pageIdx EXCEPT ![r] = @ + 1]
                     /\ UNCHANGED <<pc, exc>>
    /\ UNCHANGED <<upload, contents, handleOpen, responses, opens, log>>

\* A page loop outside the try block: an exception of a page extraction
\* leaves the handler unhandled, and no reply is made.
ExtractPageUnguarded(r) ==
    /\ pc[r] = "pages"
    /\ IF pageIdx[r] > Len(contents[r].pages)
       THEN /\ pc' = [pc EXCEPT ![r] = "exit"]
            /\ UNCHANGED <<text, pageIdx, exc>>
       ELSE LET page == contents[r].pages[pageIdx[r]]
            IN  IF page.kind = "raise"
                THEN /\ exc' = [exc EXCEPT ![r] = <<PageError>>]
                     /\ pc' = [pc EXCEPT ![r] = "fault"]
                     /\ UNCHANGED <<text, pageIdx>>
                ELSE /\ text' = [text EXCEPT ![r] = AppendPage(@, page)]
                     /\ pageIdx' = [pageIdx EXCEPT ![r] = @ + 1]
                     /\ UNCHANGED <<pc, exc>>
    /\ UNCHANGED <<upload, contents, handleOpen, responses, opens, log>>

\* for page in pdf.pages: one turn of the loop, or its end.
ExtractPage(r) ==
    /\ pc[r] = "pages"
    /\ IF pageIdx[r] > Len(contents[r].pages)
       THEN /\ pc' = [pc EXCEPT ![r] = "exit"]
            /\ UNCHANGED <<text, pageIdx, exc>>
       ELSE LET page == contents[r].pages[pageIdx[r]]
            IN  IF page.kind = "raise"
                THEN /\ exc' = [exc EXCEPT ![r] = <<PageError>>]
                     /\ pc' = [pc EXCEPT ![r] = "exit"]
                     /\ UNCHANGED <<text, pageIdx>>
                ELSE /\ text' = [text EXCEPT ![r] = AppendPage(@, page)]
                     /\ pageIdx' = [pageIdx EXCEPT ![r] = @ + 1]
                     /\ UNCHANGED <<pc, exc>>
    /\ UNCHANGED <<upload, contents, handleOpen, responses, opens, log>>

\* An explicit close after the loop in place of the with block: an
\* exception skips it.
ExitWithoutCloseOnError(r) ==
    /\ pc[r] = "exit"
    /\ handleOpen' = [handleOpen EXCEPT ![r] =
                        IF exc[r] # NoException THEN @ ELSE FALSE]
    /\ pc' = [pc EXCEPT ![r] =
                IF exc[r] # NoException THEN "except" ELSE "check"]
    /\ UNCHANGED <<upload, contents, text, pageIdx, exc, responses, opens, log>>

\* The with block is left, normally or by an exception: the handle is
\* closed, and a pending exception goes on to the except clause.
ExitWith(r) ==
    /\ pc[r] = "exit"
    /\ handleOpen' = [handleOpen EXCEPT ![r] = FALSE]
    /\ pc' = [pc EXCEPT ![r] =
                IF exc[r] # NoException THEN "except" ELSE "check"]
    /\ UNCHANGED <<upload, contents, text, pageIdx, exc, responses, opens, log>>

\* A decision that logs the success line for the placeholder too.
CheckAlwaysInfo(r) ==
    /\ pc[r] = "check"
    /\ log' = Append(log, LogLine("info", "Successfully extracted text",
                                  upload[r].filename, r))
    /\ responses' = [responses EXCEPT ![r] =
                       Append(@, SuccessResponse(text[r], upload[r].filename,
                                                 contents[r].size))]
    /\ pc' = [pc EXCEPT ![r] = "done"]
    /\ UNCHANGED <<upload, contents, handleOpen, text, pageIdx, exc, opens>>

\* if text.strip(): ... else: ...; the outcome is logged and returned.
Check(r) ==
    /\ pc[r] = "check"
    /\ log' = Append(log,
                 IF Strip(text[r]) # <<>>
                 THEN LogLine("info", "Successfully extracted text",
                              upload[r].filename, r)
                 ELSE LogLine("warning", "No text extracted",
                              upload[r].filename, r))
    /\ responses' = [responses EXCEPT ![r] =
                       Append(@, SuccessResponse(text[r], upload[r].filename,
                                                 contents[r].size))]
    /\ pc' = [pc EXCEPT ![r] = "done"]
    /\ UNCHANGED <<upload, contents, handleOpen, text, pageIdx, exc, opens>>

\* An except clause that hands out what was accumulated before the failure.
ExceptWithPartialText(r) ==
    /\ pc[r] = "except"
    /\ log' = Append(log, LogLine("error", "Error processing PDF",
                                  upload[r].filename, r))
    /\ responses' = [responses EXCEPT ![r] =
                       Append(@, [success |-> FALSE,
                                  error |-> StrOfException(exc[r][1]),
                                  text |-> text[r]])]
    /\ pc' = [pc EXCEPT ![r] = "done"]
    /\ UNCHANGED <<upload, contents, handleOpen, text, pageIdx, exc, opens>>

\* except Exception as e: the error is logged and returned.
Except(r) ==
    /\ pc[r] = "except"
    /\ log' = Append(log, LogLine("error", "Error processing PDF",
                                  upload[r].filename, r))
    /\ responses' = [responses EXCEPT ![r] =
                       Append(@, FailureResponse(exc[r][1]))]
    /\ pc' = [pc EXCEPT ![r] = "done"]
    /\ UNCHANGED <<upload, contents, handleOpen, text, pageIdx, exc, opens>>

\* One request, any upload.
Next ==
    \/ \E u \in Uploads : Start(1, u)
    \/ ReadUpload(1)
    \/ OpenPdf(1)
    \/ ExtractPage(1)
    \/ ExitWith(1)
    \/ Check(1)
    \/ Except(1)

Spec == Init /\ [][Next]_vars

\* Every request slot, interleaved statement by statement.
NextConc ==
    \E r \in Reqs :
        \/ \E u \in ConcUploads : Start(r, u)
        \/ ReadUpload(r)
        \/ OpenPdf(r)
        \/ ExtractPage(r)
        \/ ExitWith(r)
        \/ Check(r)
        \/ Except(r)

SpecConc == Init /\ [][NextConc]_vars

----------------------------------------------------------------------------
(* Vocabulary of the properties *)

Returned(r) == pc[r] = "done"

Response(r) == responses[r][1]

Pages(r) == upload[r].bytes.pages

\* The upload is read, opened and extracted without any exception.
ParsesCleanly(u) ==
    /\ u.readExc = NoException
    /\ u.bytes.openExc = NoException
    /\ \A i \in DOMAIN u.bytes.pages : u.bytes.pages[i].kind # "raise"

HasText(p) == p.kind = "text" /\ Len(p.val) > 0

HasNonSpace(s) == \E i \in DOMAIN s : s[i] \notin {" ", "\n", "\t"}

\* Each non-empty page text followed by two newlines, in document order.
RECURSIVE ConcatPages(_)
ConcatPages(ps) ==
    IF ps = <<>> THEN <<>>
    ELSE (IF HasText(Head(ps)) THEN Head(ps).val \o <<"\n", "\n">> ELSE <<>>)
            \o ConcatPages(Tail(ps))

\* The first exception a request on upload u meets.
FirstFailure(u) ==
    IF u.readExc # NoException THEN u.readExc[1]
    ELSE IF u.bytes.openExc # NoException THEN u.bytes.openExc[1]
    ELSE PageError

IsDigit(c) == c \in {"0", "1", "2", "3", "4", "5", "6", "7", "8", "9"}

DigitValue(c) == CHOOSE d \in 0 .. 9 : DigitChar(d) = c

RECURSIVE DecimalValue(_)
DecimalValue(s) ==
    IF s = <<>> THEN 0
    ELSE 10 * DecimalValue(SubSeq(s, 1, Len(s) - 1)) + DigitValue(s[Len(s)])

\* s reads as a decimal number with exactly two decimals.
IsTwoDecimals(s) ==
    /\ Len(s) >= 4
    /\ s[Len(s) - 2] = "."
    /\ \A i \in (1 .. Len(s)) \ {Len(s) - 2} : IsDigit(s[i])

\* The number s denotes, in hundredths.
Hundredths(s) ==
    100 * DecimalValue(SubSeq(s, 1, Len(s) - 3))
        + DecimalValue(SubSeq(s, Len(s) - 1, Len(s)))

\* h hundredths is n/1024 rounded to two decimals: no hundredth is nearer.
IsRoundedKB(h, n) == (100 * n - 1024 * h) \in -512 .. 512

\* t is the image-based reply for this filename and this byte length.
IsPlaceholderFor(t, filename, n) ==
    LET pre  == 1 + Len(filename) + 3
        size == SubSeq(t, pre + 1, Len(t) - 4)
    IN  /\ Len(t) >= pre + 4 + 4
        /\ SubSeq(t, 1, pre)
             = <<"PDF Document: ">> \o filename \o <<"\n", "\n", "File Size: ">>
        /\ SubSeq(t, Len(t) - 3, Len(t)) = <<"KB", "\n", "\n", OcrSentence>>
        /\ IsTwoDecimals(size)
        /\ IsRoundedKB(Hundredths(size), n)

IsSuccess(resp) == DOMAIN resp = {"success", "text"} /\ resp.success = TRUE

IsFailure(resp) == DOMAIN resp = {"success", "error"} /\ resp.success = FALSE

----------------------------------------------------------------------------
(* Properties of one request (Spec) *)

\* C1, as claimed: whenever a document parses without failure and at least
\* one page has non-empty text, the reply is success with the text equal to
\* the non-empty page texts in document order, each followed by exactly two
\* newlines.
C1_AnyTextIsReturned ==
    \A r \in Reqs :
        (/\ Returned(r)
         /\ ParsesCleanly(upload[r])
         /\ \E i \in DOMAIN Pages(r) : HasText(Pages(r)[i]))
        => /\ IsSuccess(Response(r))
           /\ Response(r).text = ConcatPages(Pages(r))

\* C1, amended: whenever a document parses without failure and at least one
\* page has a text with a character that is not whitespace, the reply is
\* success with the text equal to the non-empty page texts in document
\* order, each followed by exactly two newlines; empty and absent page texts
\* add nothing.
C1_VisibleTextIsReturned ==
    \A r \in Reqs :
        (/\ Returned(r)
         /\ ParsesCleanly(upload[r])
         /\ \E i \in DOMAIN Pages(r) :
                HasText(Pages(r)[i]) /\ HasNonSpace(Pages(r)[i].val))
        => /\ IsSuccess(Response(r))
           /\ Response(r).text = ConcatPages(Pages(r))

\* A document whose first page has no text and whose second page has one
\* has been answered with that text and one separator.
C1_Witness ==
    /\ Returned(1)
    /\ Len(Pages(1)) = 2
    /\ Pages(1)[1] = [kind |-> "none", val |-> <<>>]
    /\ Pages(1)[2] = TextPage(<<" ", "b">>)
    /\ Response(1) = [success |-> TRUE, text |-> <<" ", "b", "\n", "\n">>]

\* C2: whenever a document parses without failure and every page yields an
\* empty or absent text (a document without pages included), the reply is
\* success with the placeholder: the exact filename, the byte length over
\* 1024 rounded to two decimals, and the fixed sentence about OCR.
C2_PlaceholderWhenNoText ==
    \A r \in Reqs :
        (/\ Returned(r)
         /\ ParsesCleanly(upload[r])
         /\ \A i \in DOMAIN Pages(r) : ~HasText(Pages(r)[i]))
        => /\ IsSuccess(Response(r))
           /\ IsPlaceholderFor(Response(r).text, upload[r].filename,
                               upload[r].bytes.size)

\* A document of 10235 bytes with two pages without text has been answered
\* with the placeholder, its size shown as 10.00.
C2_Witness ==
    /\ Returned(1)
    /\ ParsesCleanly(upload[1])
    /\ Len(Pages(1)) = 2
    /\ \A i \in DOMAIN Pages(1) : ~HasText(Pages(1)[i])
    /\ upload[1].bytes.size = 10235
    /\ Response(1).text
         = <<"PDF Document: ", "scan 1.pdf", "\n", "\n", "File Size: ",
             "1", "0", ".", "0", "0", "KB", "\n", "\n", OcrSentence>>

\* C10, amended: after all pages are read without failure, the accumulator
\* is the reply exactly when it has a character that is not whitespace, and
\* then it is returned whole, leading whitespace and trailing separator
\* kept; otherwise the placeholder is the reply.
C10_DecisionOnTrimmedCopy ==
    \A r \in Reqs :
        (Returned(r) /\ ParsesCleanly(upload[r]))
        => /\ text[r] = ConcatPages(Pages(r))
           /\ IsSuccess(Response(r))
           /\ HasNonSpace(text[r]) => Response(r).text = text[r]
           /\ ~HasNonSpace(text[r])
                => IsPlaceholderFor(Response(r).text, upload[r].filename,
                                    upload[r].bytes.size)

\* C10, as claimed: the same, and the placeholder is the reply exactly when
\* no page has yielded a text.
C10_PlaceholderIffNoPageText ==
    \A r \in Reqs :
        (Returned(r) /\ ParsesCleanly(upload[r]))
        => /\ HasNonSpace(text[r]) => Response(r).text = text[r]
           /\ IsPlaceholderFor(Response(r).text, upload[r].filename,
                               upload[r].bytes.size)
                <=> \A i \in DOMAIN Pages(r) : ~HasText(Pages(r)[i])

\* A page text with a leading blank has been returned untrimmed.
C10_Witness ==
    /\ Returned(1)
    /\ Pages(1) = <<TextPage(<<" ", "b">>)>>
    /\ Strip(text[1]) = <<"b">>
    /\ Response(1).text = <<" ", "b", "\n", "\n">>

\* C3: whenever the read, the open or a page extraction fails, the reply is
\* success=false with the error equal to the description of that failure,
\* it has no text field, and the document has been opened at most once.
C3_FailureReply ==
    \A r \in Reqs :
        (Returned(r) /\ ~ParsesCleanly(upload[r]))
        => /\ Len(responses[r]) = 1
           /\ IsFailure(Response(r))
           /\ Response(r).error = StrOfException(FirstFailure(upload[r]))
           /\ opens[r] <= 1

\* The second page has failed after the text of the first was accumulated,
\* and the reply is the failure alone.
C3_Witness ==
    /\ Returned(1)
    /\ Len(Pages(1)) = 2
    /\ Pages(1)[2].kind = "raise"
    /\ text[1] = <<"a", "\n", "\n">>
    /\ Response(1) = [success |-> FALSE, error |-> <<"Unexpected EOF">>]

\* C4: whenever the library rejects the uploaded bytes on open (the empty
\* and the one-byte upload included), the reply is success=false with an
\* error message that is not empty.
C4_RejectedBytesGiveMessage ==
    \A r \in Reqs :
        (/\ Returned(r)
         /\ upload[r].readExc = NoException
         /\ upload[r].bytes.openExc # NoException)
        => /\ IsFailure(Response(r))
           /\ Len(Response(r).error) > 0

\* The statements of the handler that request r can be at.
Statements == {"idle", "read", "open", "pages", "exit", "check", "except", "done"}

\* The handler of request r can take its next statement.
CanStep(r) ==
    ENABLED (\/ ReadUpload(r) \/ OpenPdf(r) \/ ExtractPage(r)
             \/ ExitWith(r) \/ Check(r) \/ Except(r))

\* C5: a request is always at a statement of the handler (no exception has
\* left it), it can go on until it has returned, it has made no reply
\* before it returns, and when it returns it has made exactly one reply,
\* which is {success: true, text} or {success: false, error}.
C5_OneWellFormedReply ==
    \A r \in Reqs :
        /\ pc[r] \in Statements
        /\ pc[r] \notin {"idle", "done"} => CanStep(r)
        /\ ~Returned(r) => responses[r] = <<>>
        /\ Returned(r)
             => /\ Len(responses[r]) = 1
                /\ IsSuccess(Response(r)) \/ IsFailure(Response(r))

\* Requests that ended in the except clause after a failed read, a failed
\* open and a failed page extraction are all seen; this one is the page.
C5_Witness ==
    /\ Returned(1)
    /\ upload[1].bytes.openExc = NoException
    /\ Len(Pages(1)) >= 1
    /\ Pages(1)[1].kind = "raise"
    /\ Len(responses[1]) = 1
    /\ IsFailure(Response(1))

\* C7: the handle of a request is open only inside its with block; it is
\* closed when the request is in the except clause, at the decision, and
\* when it has replied.
C7_HandleReleased ==
    \A r \in Reqs :
        /\ handleOpen[r] => pc[r] \in {"pages", "exit"}
        /\ responses[r] # <<>> => ~handleOpen[r]

\* A request whose page extraction failed after the open has replied, its
\* handle closed.
C7_Witness ==
    /\ Returned(1)
    /\ opens[1] = 1
    /\ upload[1].bytes.openExc = NoException
    /\ exc[1] = <<PageError>>
    /\ responses[1] # <<>>
    /\ ~handleOpen[1]

----------------------------------------------------------------------------
(* Properties of concurrent requests (SpecConc) *)

\* The reply of a request that runs alone on upload u.
SoloResponse(u) ==
    IF ParsesCleanly(u)
    THEN SuccessResponse(ConcatPages(u.bytes.pages), u.filename, u.bytes.size)
    ELSE FailureResponse(FirstFailure(u))

\* C6: two requests with the same bytes and the same filename that have
\* both returned have made the same reply.
C6_SameUploadSameReply ==
    \A r1, r2 \in Reqs :
        (Returned(r1) /\ Returned(r2) /\ upload[r1] = upload[r2])
        => responses[r1] = responses[r2]

\* Two requests with the same two-page document have both replied with
\* its text.
C6_Witness ==
    /\ Returned(1) /\ Returned(2)
    /\ upload[1] = upload[2]
    /\ Len(Pages(1)) = 2
    /\ IsSuccess(Response(1))
    /\ Response(2).text = <<" ", "b", "\n", "\n", "a", "\n", "\n">>

\* C8: under every interleaving, the reply of a request is the reply it
\* makes when it runs alone on its upload.
C8_ReplyAsIfAlone ==
    \A r \in Reqs :
        Returned(r) => responses[r] = <<SoloResponse(upload[r])>>

\* Request 2 started while request 1 was running and has accumulated the
\* text of its own first page; request 1 has replied with its own text.
C8_Witness ==
    /\ Returned(1)
    /\ pc[2] = "pages"
    /\ upload[1] # upload[2]
    /\ text[2] = <<"a", "\n", "\n">>
    /\ Response(1) = [success |-> TRUE,
                      text |-> <<" ", "b", "\n", "\n", "a", "\n", "\n">>]
    /\ Len(log) = 3
    /\ log[2].req = 2
    /\ log[3].req = 1

\* The log lines of request r, in order.
LogOf(r) ==
    LET Mine(l) == l.req = r IN SelectSeq(log, Mine)

\* The outcome line that matches a reply.
OutcomeLine(resp, u, r) ==
    IF IsFailure(resp)
    THEN LogLine("error", "Error processing PDF", u.filename, r)
    ELSE IF IsPlaceholderFor(resp.text, u.filename, u.bytes.size)
    THEN LogLine("warning", "No text extracted", u.filename, r)
    ELSE LogLine("info", "Successfully extracted text", u.filename, r)

\* C9: a request that has started has logged its start line before it reads
\* or parses anything; until it returns that is its only line; when it has
\* returned it has logged exactly one more line, the one that matches its
\* reply: info for extracted text, warning for the placeholder, error for
\* success=false.  Every line carries the filename of the request.
C9_LogLines ==
    \A r \in Reqs :
        LET startLine ==
                LogLine("info", "Processing PDF", upload[r].filename, r)
        IN  /\ pc[r] = "idle" => LogOf(r) = <<>> /\ opens[r] = 0
            /\ pc[r] \notin {"idle", "done"} => LogOf(r) = <<startLine>>
            /\ Returned(r)
                 => LogOf(r) = <<startLine,
                                OutcomeLine(Response(r), upload[r], r)>>

\* A request has returned the placeholder and logged the warning line after
\* its start line.
C9_Witness ==
    /\ Returned(1)
    /\ IsSuccess(Response(1))
    /\ ~HasNonSpace(text[1])
    /\ Len(LogOf(1)) = 2
    /\ LogOf(1)[2].level = "warning"
    /\ LogOf(1)[2].filename = <<"a.pdf">>

====
